---- MODULE Spec2Model ----
(***************************************************************************)
(* Model of the analysis backend of qfology (app/api/analyze/route.ts):   *)
(* the in-memory result cache, the market intelligence aggregator, and    *)
(* the POST handler with its batched competitor analysis.                 *)
(*                                                                         *)
(* A JavaScript object is a TLA+ record; a property that is absent from   *)
(* the object is a field that is absent from the record's DOMAIN.  A      *)
(* value that may be null is a sequence of length 0 (null) or 1.          *)
(***************************************************************************)
EXTENDS Integers, Sequences, FiniteSets, TLC

VARIABLES
    cache,                \* the module-level Map: key -> {data, timestamp}
    now,                  \* Date.now()
    ticks,                \* number of clock advances so far
    stored,               \* history: key -> the last setCache on that key
    got,                  \* history: the last getFromCache call and its result
    geminiKey,            \* process.env.GOOGLE_API_KEY || GEMINI_API_KEY is set
    serpKey,              \* process.env.SERPAPI_API_KEY is set
    served,               \* number of requests received so far
    req,                  \* the request being handled
    pc,                   \* position of the handler
    idx,                  \* index of the url the for-loop is at
    results,              \* results: AnalysisResult[]
    result,               \* the per-url result (a copy of cachedResult)
    content,              \* the text extractContent returned for the url
    promises,             \* competitorAnalysisPromises: state of each promise
    bi,                   \* the batch loop's variable i (0-based offset)
    analyzedCompetitors,  \* analyzedCompetitors: CompetitorResult[]
    batches,              \* history: sizes of the batches awaited for this url
    pauses,               \* history: number of pauses taken for this url
    calls,                \* history: external calls made for this request
    spent,                \* history: competitor analyses started in this behaviour
    marketIntelligence,   \* the aggregator's output (<<>> is null)
    response,             \* the last response sent (<<>> before the first)
    arg,                  \* the arguments of a function studied on its own
    ret,                  \* what that function returned (<<>> before it returns)
    handlers              \* the requests that run concurrently: their positions

vars == <<cache, now, ticks, stored, got, geminiKey, serpKey, served, req, pc,
          idx, results, result, content, promises, bi, analyzedCompetitors,
          batches, pauses, calls, spent, marketIntelligence, response,
          arg, ret, handlers>>

cacheVars == <<cache, now, ticks, stored, got>>
envVars == <<geminiKey, serpKey>>
unitVars == <<arg, ret, handlers>>
handlerVars == <<served, req, pc, idx, results, result, content, promises, bi,
                 analyzedCompetitors, batches, pauses, calls, spent,
                 marketIntelligence, response>>

(***************************************************************************)
(* Bounds of the model.                                                    *)
(***************************************************************************)
MaxTicks == 2         \* clock advances per behaviour
MaxPrimary == 4       \* primary results handed to the aggregator
MaxUrls == 2          \* urls in one request
MaxRequests == 2      \* requests per behaviour
MaxOrganic == 11      \* organic results the search can return (analyzer)
MaxAnalyses == 4      \* competitor analyses per behaviour (whole handler)

(***************************************************************************)
(* Generic helpers for JavaScript values.                                  *)
(***************************************************************************)
Range(s) == {s[k] : k \in 1..Len(s)}

Min(a, b) == IF a < b THEN a ELSE b

\* {...a, ...b}
Spread(a, b) ==
    [k \in DOMAIN a \cup DOMAIN b |-> IF k \in DOMAIN b THEN b[k] ELSE a[k]]

SliceUncut(s, from, to) == s

\* Array.prototype.slice(from, to) with 0-based from (inclusive), to (exclusive)
Slice(s, from, to) == SubSeq(s, from + 1, Min(to, Len(s)))

RECURSIVE Concat(_)
Concat(ss) == IF ss = <<>> THEN <<>> ELSE Head(ss) \o Concat(Tail(ss))

\* Math.round(num / den * 100) for num >= 0, den > 0
RoundPercent(num, den) == (200 * num + den) \div (2 * den)

\* String.prototype.toLowerCase on the names of the model
toLowerCase(s) ==
    CASE s = "CRM" -> "crm"
      [] s = "Api" -> "api"
      [] OTHER -> s

(***************************************************************************)
(* The result cache.                                                       *)
(***************************************************************************)
CACHE_TTL == 600000

EmptyCache == [k \in {} |-> <<>>]

MapSet(m, key, v) == [k \in DOMAIN m \cup {key} |-> IF k = key THEN v ELSE m[k]]

MapClear(m, key) == [k \in {} |-> <<>>]

MapDelete(m, key) == [k \in DOMAIN m \ {key} |-> m[k]]

FreshInclusive(entry, t) == t - entry.timestamp <= CACHE_TTL

Fresh(entry, t) == t - entry.timestamp < CACHE_TTL

getFromCacheTouching(c, key, t) ==
    IF key \in DOMAIN c /\ Fresh(c[key], t)
    THEN [data |-> <<c[key].data>>,
          cache |-> MapSet(c, key, [data |-> c[key].data, timestamp |-> t])]
    ELSE [data |-> <<>>, cache |-> MapDelete(c, key)]

\* getFromCache: the value returned (data) and the map afterwards (cache)
getFromCache(c, key, t) ==
    IF key \in DOMAIN c /\ Fresh(c[key], t)
    THEN [data |-> <<c[key].data>>, cache |-> c]
    ELSE [data |-> <<>>, cache |-> MapDelete(c, key)]

setCacheKeepsTimestamp(c, key, data, t) ==
    MapSet(c, key, [data |-> data,
                    timestamp |-> IF key \in DOMAIN c THEN c[key].timestamp
                                  ELSE t])

setCache(c, key, data, t) == MapSet(c, key, [data |-> data, timestamp |-> t])

CacheKey(url) == "analysis:" \o url

(***************************************************************************)
(* The market intelligence aggregator.                                     *)
(***************************************************************************)
\* entity.category || 'Other'
CategoryOf(e) ==
    IF "category" \in DOMAIN e /\ e.category # "" THEN e.category ELSE "Other"

EntityTuples(entities, url) ==
    [k \in 1..Len(entities) |->
        [name |-> toLowerCase(entities[k].name),
         category |-> CategoryOf(entities[k]),
         url |-> url]]

CompetitorTuples(comps) ==
    Concat([k \in 1..Len(comps) |->
        IF "entities" \in DOMAIN comps[k]
        THEN EntityTuples(comps[k].entities, comps[k].url)
        ELSE <<>>])

ResultTuples(r) ==
    EntityTuples(r.entities, r.url)
      \o (IF "competitors" \in DOMAIN r THEN CompetitorTuples(r.competitors)
          ELSE <<>>)

allEntities(rs) == Concat([k \in 1..Len(rs) |-> ResultTuples(rs[k])])

\* keys of a Map filled in the order of s: first occurrences, in order
RECURSIVE InsertionOrder(_, _)
InsertionOrder(s, seen) ==
    IF s = <<>> THEN <<>>
    ELSE IF Head(s) \in seen THEN InsertionOrder(Tail(s), seen)
    ELSE <<Head(s)>> \o InsertionOrder(Tail(s), seen \cup {Head(s)})

\* entityCounts.get(name): the distinct urls carrying the name
UrlsOf(all, name) == {all[k].url : k \in {j \in 1..Len(all) : all[j].name = name}}

EntityNames(all) == InsertionOrder([k \in 1..Len(all) |-> all[k].name], {})

FrequencyPerMention(all, name, totalSites) ==
    RoundPercent(Cardinality({j \in 1..Len(all) : all[j].name = name}),
                 totalSites)

Frequency(all, name, totalSites) ==
    RoundPercent(Cardinality(UrlsOf(all, name)), totalSites)

\* Array.prototype.filter
Filter(s, keep(_)) == SelectSeq(s, keep)

\* one step of a stable sort: x goes after every element that does not come after it
InsertSorted(sorted, x, key(_)) ==
    LET p == Cardinality({j \in 1..Len(sorted) : key(sorted[j]) <= key(x)})
    IN  SubSeq(sorted, 1, p) \o <<x>> \o SubSeq(sorted, p + 1, Len(sorted))

\* Array.prototype.sort (stable) by an integer key, ascending
SortAsc(s, key(_)) ==
    LET f[n \in 0..Len(s)] ==
            IF n = 0 THEN <<>> ELSE InsertSorted(f[n - 1], s[n], key)
    IN  f[Len(s)]

TopN == 10

IsCommonFrom30(e) == e.frequency >= 30

IsCommon(e) == e.frequency >= 40

IsGapBelow40(g) == g.coverage >= 20 /\ g.coverage < 40

IsGap(g) == g.coverage >= 20 /\ g.coverage <= 30

commonEntities(all, totalSites) ==
    LET names == EntityNames(all)
        mapped == [k \in 1..Len(names) |->
                     [name |-> names[k],
                      frequency |-> Frequency(all, names[k], totalSites)]]
        NegFrequency(e) == 0 - e.frequency
    IN  Slice(SortAsc(Filter(mapped, IsCommon), NegFrequency), 0, TopN)

competitiveGaps(all, totalSites) ==
    LET names == EntityNames(all)
        mapped == [k \in 1..Len(names) |->
                     [entity |-> names[k],
                      coverage |-> Frequency(all, names[k], totalSites)]]
        Coverage(g) == g.coverage
    IN  Slice(SortAsc(Filter(mapped, IsGap), Coverage), 0, TopN)

industryDistribution(all) ==
    LET cats == InsertionOrder([k \in 1..Len(all) |-> all[k].category], {})
        mapped == [k \in 1..Len(cats) |->
                     [category |-> cats[k],
                      count |-> Cardinality({j \in 1..Len(all) :
                                               all[j].category = cats[k]})]]
        NegCount(c) == 0 - c.count
    IN  SortAsc(mapped, NegCount)

MaxUniqueSites == 2
MaxUniquePerResult == 5

uniquePositioningKeepsEmpty(rs, all) ==
    LET IsUnique(e) ==
            Cardinality(UrlsOf(all, toLowerCase(e.name))) <= MaxUniqueSites
        NamesOf(es) == [k \in 1..Len(es) |-> es[k].name]
    IN  [k \in 1..Len(rs) |->
            [url |-> rs[k].url,
             uniqueEntities |->
                 Slice(NamesOf(Filter(rs[k].entities, IsUnique)),
                       0, MaxUniquePerResult)]]

uniquePositioning(rs, all) ==
    LET IsUnique(e) ==
            Cardinality(UrlsOf(all, toLowerCase(e.name))) <= MaxUniqueSites
        NamesOf(es) == [k \in 1..Len(es) |-> es[k].name]
        mapped == [k \in 1..Len(rs) |->
                     [url |-> rs[k].url,
                      uniqueEntities |->
                          Slice(NamesOf(Filter(rs[k].entities, IsUnique)),
                                0, MaxUniquePerResult)]]
        NonEmpty(p) == Len(p.uniqueEntities) > 0
    IN  Filter(mapped, NonEmpty)

generateMarketIntelligence(rs) ==
    LET all == allEntities(rs)
        totalSites == Len(rs)
    IN  [commonEntities |-> commonEntities(all, totalSites),
         industryDistribution |-> industryDistribution(all),
         competitiveGaps |-> competitiveGaps(all, totalSites),
         uniquePositioning |-> uniquePositioning(rs, all)]

(***************************************************************************)
(* The values the model draws its inputs from.                             *)
(***************************************************************************)
Urls == {"u1", "u2"}

\* the url of the k-th primary result handed to the aggregator
PrimaryUrl(k) == "u" \o ToString(k)

Entity(name, category) ==
    [name |-> name, confidence |-> 85, category |-> category]

\* entity lists an analysis can return: names differing in case only,
\* the same name twice on one site, no entity at all
EntityLists ==
    { <<>>,
      <<Entity("CRM", "Product")>>,
      <<Entity("crm", "Product"), Entity("Api", "Technology")>>,
      <<Entity("api", "Technology"), Entity("api", "Feature")>> }

\* what analyzeWithGemini returns
Analysis(entities) ==
    [entities |-> entities, summary |-> "summary", searchPhrase |-> "phrase"]

PrimaryRecordWithCompetitors(url, analysis, text) ==
    [url |-> url,
     entities |-> analysis.entities,
     searchPhrase |-> analysis.searchPhrase,
     summary |-> analysis.summary,
     competitors |-> <<>>,
     originalContent |-> text]

\* the record the handler builds from an analysis and stores in the cache
PrimaryRecord(url, analysis, text) ==
    [url |-> url,
     entities |-> analysis.entities,
     searchPhrase |-> analysis.searchPhrase,
     summary |-> analysis.summary,
     originalContent |-> text]

DegradedResultKeepsPhrase(url, message) ==
    [url |-> url,
     entities |-> <<>>,
     searchPhrase |-> "phrase",
     summary |-> "Analysis failed: " \o message,
     competitors |-> <<>>,
     originalContent |-> ""]

\* the result the handler pushes when the primary analysis of a url throws
DegradedResult(url, message) ==
    [url |-> url,
     entities |-> <<>>,
     searchPhrase |-> "",
     summary |-> "Analysis failed: " \o message,
     competitors |-> <<>>,
     originalContent |-> ""]

\* the stub findCompetitors builds from the k-th organic result
Stub(url, k) ==
    [url |-> url, title |-> "title", snippet |-> "snippet", position |-> k,
     success |-> FALSE]

\* analyzeCompetitor: the record of a competitor whose fetch and extraction succeeded
CompetitorSuccess(stub, analysis) ==
    Spread(stub, [entities |-> analysis.entities,
                  analysis |-> analysis.summary,
                  success |-> TRUE])

\* analyzeCompetitor: the record of a competitor whose fetch or extraction threw
CompetitorFailure(stub, message) ==
    Spread(stub, [error |-> message, success |-> FALSE])

FetchErrors == {"HTTP 404"}
ExtractErrors == {"No JSON found in response"}

(***************************************************************************)
(* The cache on its own: any interleaving of setCache, getFromCache and    *)
(* the passing of time.                                                    *)
(***************************************************************************)
CacheKeys == {CacheKey(u) : u \in Urls}

CacheValues ==
    {PrimaryRecord("u1", Analysis(es), "text") :
        es \in {<<>>, <<Entity("CRM", "Product")>>}}

\* steps of the clock: one millisecond, and one millisecond short of the TTL
TickSteps == {1, CACHE_TTL - 1}

\* idle times between two requests: none, just short of the TTL, the TTL
ArrivalDelays == {0, CACHE_TTL - 1, CACHE_TTL}

NoGet == [key |-> "", data |-> <<>>, at |-> 0, flip |-> FALSE]

IdleHandler ==
    /\ served = 0
    /\ req = [bodyParses |-> FALSE]
    /\ idx = 0
    /\ results = <<>>
    /\ result = [url |-> ""]
    /\ content = ""
    /\ promises = <<>>
    /\ bi = 0
    /\ analyzedCompetitors = <<>>
    /\ batches = <<>>
    /\ pauses = 0
    /\ calls = [fetch |-> 0, llm |-> 0, search |-> 0, searchFailed |-> 0,
             primaryFailed |-> 0, competitor |-> 0]
    /\ spent = 0
    /\ marketIntelligence = <<>>
    /\ response = [status |-> 0]

EmptyCacheState ==
    /\ cache = EmptyCache
    /\ now = 0
    /\ ticks = 0
    /\ stored = EmptyCache
    /\ got = NoGet

InitCache ==
    /\ EmptyCacheState
    /\ geminiKey = TRUE
    /\ serpKey = TRUE
    /\ IdleHandler
    /\ pc = "cache"
    /\ arg = <<>>
    /\ ret = <<>>
    /\ handlers = <<>>

Tick ==
    /\ ticks < MaxTicks
    /\ \E d \in TickSteps : now' = now + d
    /\ ticks' = ticks + 1
    /\ UNCHANGED <<cache, stored, got, envVars, unitVars, handlerVars>>

CacheSet(key, data) ==
    /\ pc = "cache"
    /\ cache' = setCache(cache, key, data, now)
    /\ stored' = MapSet(stored, key, [data |-> data, timestamp |-> now])
    /\ UNCHANGED <<now, ticks, got, envVars, unitVars, handlerVars>>

CacheGet(key) ==
    /\ pc = "cache"
    /\ LET r == getFromCache(cache, key, now)
       IN  /\ cache' = r.cache
           /\ got' = [key |-> key, data |-> r.data, at |-> now,
                      flip |-> ~got.flip]
    /\ UNCHANGED <<now, ticks, stored, envVars, unitVars, handlerVars>>

NextCache ==
    \/ Tick
    \/ \E key \in CacheKeys, data \in CacheValues : CacheSet(key, data)
    \/ \E key \in CacheKeys : CacheGet(key)

SpecCache == InitCache /\ [][NextCache]_vars

(***************************************************************************)
(* The aggregator on its own: generateMarketIntelligence applied to the    *)
(* result lists the handler can build.                                     *)
(***************************************************************************)
MaxCompetitors == 2   \* competitors attached to a result handed to the aggregator

CompetitorPool ==
    { CompetitorSuccess(Stub("c1", 1), Analysis(<<Entity("CRM", "Product")>>)),
      CompetitorSuccess(Stub("c2", 2),
          Analysis(<<Entity("crm", "Product"), Entity("Api", "Technology")>>)),
      CompetitorFailure(Stub("c3", 3), "HTTP 404") }

CompetitorLists ==
    UNION {[1..n -> CompetitorPool] : n \in 0..MaxCompetitors}

\* what the primary analysis of a url can end in: an entity list, or a failure
PrimaryOutcomes ==
    [ok : {TRUE}, entities : EntityLists, message : {""}]
      \cup [ok : {FALSE}, entities : {<<>>}, message : FetchErrors]

\* the result the handler pushes for the url after that outcome
PrimaryResult(url, o) ==
    IF o.ok THEN PrimaryRecord(url, Analysis(o.entities), "text")
    ELSE DegradedResult(url, o.message)

\* the same, with the competitors the handler can attach
WithCompetitors(r) ==
    IF "competitors" \in DOMAIN r THEN {r}
    ELSE {r} \cup {Spread(r, [competitors |-> cs]) : cs \in CompetitorLists}

\* the result lists: one result per url, competitors on the first result
InitAggregator ==
    /\ EmptyCacheState
    /\ geminiKey = TRUE
    /\ serpKey = TRUE
    /\ served = 0
    /\ req = [bodyParses |-> FALSE]
    /\ idx = 0
    /\ \E n \in 1..MaxPrimary, f \in PrimaryOutcomes :
         \E first \in WithCompetitors(PrimaryResult(PrimaryUrl(1), f)),
            o \in [2..n -> PrimaryOutcomes] :
              results = [k \in 1..n |->
                           IF k = 1 THEN first
                           ELSE PrimaryResult(PrimaryUrl(k), o[k])]
    /\ result = [url |-> ""]
    /\ content = ""
    /\ promises = <<>>
    /\ bi = 0
    /\ analyzedCompetitors = <<>>
    /\ batches = <<>>
    /\ pauses = 0
    /\ calls = [fetch |-> 0, llm |-> 0, search |-> 0, searchFailed |-> 0,
             primaryFailed |-> 0, competitor |-> 0]
    /\ spent = 0
    /\ marketIntelligence = <<>>
    /\ response = [status |-> 0]
    /\ arg = <<>>
    /\ ret = <<>>
    /\ handlers = <<>>
    /\ pc = "aggregate"

RunAggregator ==
    /\ pc = "aggregate"
    /\ marketIntelligence' = <<generateMarketIntelligence(results)>>
    /\ pc' = "aggregated"
    /\ UNCHANGED <<spent, cacheVars, envVars, unitVars, served, req, idx, results, result,
                   content, promises, bi, analyzedCompetitors, batches, pauses,
                   calls, response>>

NextAggregator == RunAggregator

SpecAggregator == InitAggregator /\ [][NextAggregator]_vars

(***************************************************************************)
(* The POST handler.  Between two awaits the handler runs alone; the model *)
(* takes a step at each await, at the top of each iteration of the loop    *)
(* over the urls, and at the end of that loop.                             *)
(***************************************************************************)
batchSize == 3
MaxCompetitorsAnalyzed == 10

\* the url of the k-th organic result
CompetitorUrl(k) == "c" \o ToString(k)

UrlLists == UNION {[1..n -> Urls] : n \in 0..MaxUrls}

\* the urls property of the body: absent or falsy, truthy but no array, an array
UrlsFields ==
    {[kind |-> "missing"], [kind |-> "notArray"]}
      \cup {[kind |-> "array", list |-> l] : l \in UrlLists}

\* the findCompetitors property of the body
Flags == {"undefined", "false", "true"}

Truthy(flag) == flag = "true"

Requests ==
    {[bodyParses |-> FALSE]}
      \cup {[bodyParses |-> TRUE, urls |-> u, findCompetitors |-> f] :
               u \in UrlsFields, f \in Flags}

\* !urls || !Array.isArray(urls) || urls.length === 0
UrlsInvalid(u) ==
    \/ u.kind = "missing"
    \/ u.kind # "array"
    \/ Len(u.list) = 0

ValidationKeyFirst(r, llmKey) ==
    IF ~r.bodyParses THEN "throw"
    ELSE IF ~llmKey THEN "noKey"
    ELSE IF UrlsInvalid(r.urls) THEN "badUrls"
    ELSE "ok"

ValidationWithoutKey(r, llmKey) ==
    IF ~r.bodyParses THEN "throw"
    ELSE IF UrlsInvalid(r.urls) THEN "badUrls"
    ELSE "ok"

\* the way the handler leaves its validation gate: request.json() throws
\* into the outer catch, the 400 return, the 500 return, or the loop
Validation(r, llmKey) ==
    IF ~r.bodyParses THEN "throw"
    ELSE IF UrlsInvalid(r.urls) THEN "badUrls"
    ELSE IF ~llmKey THEN "noKey"
    ELSE "ok"

ShouldFindCompetitorsAnyKey(flag, searchKey) == Truthy(flag)

\* shouldFindCompetitors && process.env.SERPAPI_API_KEY
ShouldFindCompetitors(flag, searchKey) == Truthy(flag) /\ searchKey

\* shouldFindCompetitors && !!process.env.SERPAPI_API_KEY, as a value
CompetitorAnalysisEnabled(flag, searchKey) ==
    IF Truthy(flag) THEN (IF searchKey THEN "true" ELSE "false") ELSE flag

\* results.length > 1 || (results.length === 1 && results[0].competitors
\*                        && results[0].competitors.length > 0)
ShouldGenerate(rs) ==
    \/ Len(rs) > 1
    \/ /\ Len(rs) = 1
       /\ "competitors" \in DOMAIN rs[1]
       /\ Len(rs[1].competitors) > 0

SuccessfulAnalysesAll(rs) == Len(rs)

\* results.filter(r => r.entities.length > 0).length
SuccessfulAnalyses(rs) == Cardinality({k \in 1..Len(rs) : Len(rs[k].entities) > 0})

PrimaryEntityLists == {<<>>, <<Entity("CRM", "Product")>>}
CompetitorEntityLists == {<<Entity("crm", "Product")>>}

NoCalls == [fetch |-> 0, llm |-> 0, search |-> 0, searchFailed |-> 0,
             primaryFailed |-> 0, competitor |-> 0]
NoResult == [url |-> ""]
NoResponse == [status |-> 0]

Init ==
    /\ EmptyCacheState
    /\ geminiKey \in BOOLEAN
    /\ serpKey \in BOOLEAN
    /\ served = 0
    /\ req = [bodyParses |-> FALSE]
    /\ pc = "idle"
    /\ idx = 0
    /\ results = <<>>
    /\ result = NoResult
    /\ content = ""
    /\ promises = <<>>
    /\ bi = 0
    /\ analyzedCompetitors = <<>>
    /\ batches = <<>>
    /\ pauses = 0
    /\ calls = NoCalls
    /\ spent = 0
    /\ marketIntelligence = <<>>
    /\ response = NoResponse
    /\ arg = <<>>
    /\ ret = <<>>
    /\ handlers = <<>>

\* a request arrives after the server idled for d ms (the clock starts with
\* the first request, and a request is short against the clock's steps); the
\* handler awaits request.json()
ReceiveRequest(r, d) ==
    /\ pc = "idle"
    /\ served < MaxRequests
    /\ served = 0 => d = 0
    /\ now' = now + d
    /\ served' = served + 1
    /\ req' = r
    /\ pc' = "json"
    /\ idx' = 0
    /\ results' = <<>>
    /\ result' = NoResult
    /\ content' = ""
    /\ promises' = <<>>
    /\ bi' = 0
    /\ analyzedCompetitors' = <<>>
    /\ batches' = <<>>
    /\ pauses' = 0
    /\ calls' = NoCalls
    /\ marketIntelligence' = <<>>
    /\ response' = NoResponse
    /\ UNCHANGED <<cache, ticks, stored, got, envVars, unitVars, spent>>

\* the validation gate, up to the first iteration of the loop
Validate ==
    /\ pc = "json"
    /\ LET v == Validation(req, geminiKey)
       IN  /\ response' =
                 CASE v = "throw" ->
                        [status |-> 500, error |-> "Analysis failed",
                         details |-> "Unexpected token"]
                   [] v = "badUrls" ->
                        [status |-> 400,
                         error |-> "urls field is required and must be a non-empty array"]
                   [] v = "noKey" ->
                        [status |-> 500,
                         error |-> "Google Gemini API key not configured"]
                   [] OTHER -> response
           /\ pc' = IF v = "ok" THEN "loop" ELSE "idle"
           /\ idx' = IF v = "ok" THEN 1 ELSE idx
    /\ UNCHANGED <<spent, cacheVars, envVars, unitVars, served, req, results, result, content,
                   promises, bi, analyzedCompetitors, batches, pauses, calls,
                   marketIntelligence>>

\* the handler's code from `const result = { ...cachedResult }` up to its next
\* await or to the end of the iteration
AfterPrimary(cachedResult, callsSoFar) ==
    /\ result' = cachedResult
    /\ IF ShouldFindCompetitors(req.findCompetitors, serpKey)
       THEN /\ calls' = [callsSoFar EXCEPT !.search = @ + 1]
            /\ pc' = "discover"
            /\ UNCHANGED <<results, idx>>
       ELSE /\ calls' = callsSoFar
            /\ results' = Append(results, cachedResult)
            /\ idx' = idx + 1
            /\ pc' = "loop"

\* the catch of the iteration: a degraded result, then the next url
Degrade(message) ==
    /\ results' = Append(results, DegradedResult(req.urls.list[idx], message))
    /\ idx' = idx + 1
    /\ pc' = "loop"
    /\ calls' = [calls EXCEPT !.primaryFailed = @ + 1]

\* top of an iteration: the cache lookup, and on a hit the rest of the iteration
Lookup ==
    /\ pc = "loop"
    /\ idx <= Len(req.urls.list)
    /\ LET r == getFromCache(cache, CacheKey(req.urls.list[idx]), now)
       IN  /\ cache' = r.cache
           /\ IF r.data # <<>>
              THEN AfterPrimary(r.data[1], calls)
              ELSE /\ calls' = [calls EXCEPT !.fetch = @ + 1]
                   /\ pc' = "fetch"
                   /\ UNCHANGED <<results, result, idx>>
    /\ UNCHANGED <<spent, now, ticks, stored, got, envVars, unitVars, served, req, content,
                   promises, bi, analyzedCompetitors, batches, pauses,
                   marketIntelligence, response>>

\* extractContent(url) returns text; analyzeWithGemini is called
FetchOk(text) ==
    /\ pc = "fetch"
    /\ content' = text
    /\ calls' = [calls EXCEPT !.llm = @ + 1]
    /\ pc' = "llm"
    /\ UNCHANGED <<spent, cacheVars, envVars, unitVars, served, req, idx, results, result,
                   promises, bi, analyzedCompetitors, batches, pauses,
                   marketIntelligence, response>>

FetchFailCaches(message) ==
    /\ pc = "fetch"
    /\ Degrade(message)
    /\ cache' = setCache(cache, CacheKey(req.urls.list[idx]),
                         DegradedResult(req.urls.list[idx], message), now)
    /\ UNCHANGED <<spent, now, ticks, stored, got, envVars, unitVars, served,
                   req, result, content, promises, bi, analyzedCompetitors,
                   batches, pauses, marketIntelligence, response>>

\* extractContent(url) throws
FetchFail(message) ==
    /\ pc = "fetch"
    /\ Degrade(message)
    /\ UNCHANGED <<spent, cacheVars, envVars, unitVars, served, req, result,
                   content, promises, bi, analyzedCompetitors, batches, pauses,
                   marketIntelligence, response>>

\* analyzeWithGemini returns: the record is cached, then copied
GeminiOk(analysis) ==
    /\ pc = "llm"
    /\ LET cachedResult == PrimaryRecord(req.urls.list[idx], analysis, content)
       IN  /\ cache' = setCache(cache, CacheKey(req.urls.list[idx]),
                                cachedResult, now)
           /\ AfterPrimary(cachedResult, calls)
    /\ UNCHANGED <<spent, now, ticks, stored, got, envVars, unitVars, served, req, content,
                   promises, bi, analyzedCompetitors, batches, pauses,
                   marketIntelligence, response>>

\* analyzeWithGemini throws
GeminiFail(message) ==
    /\ pc = "llm"
    /\ Degrade(message)
    /\ UNCHANGED <<spent, cacheVars, envVars, unitVars, served, req, result,
                   content, promises, bi, analyzedCompetitors, batches, pauses,
                   marketIntelligence, response>>

\* result.competitors = analyzedCompetitors; results.push(result)
AttachAndPush(competitors) ==
    /\ result' = Spread(result, [competitors |-> competitors])
    /\ results' = Append(results, result')
    /\ idx' = idx + 1
    /\ pc' = "loop"

\* findCompetitors returns the stubs of n organic results; every analysis of
\* the first ten is started by the map, then the first batch is awaited
DiscoverOk(n, budget) ==
    /\ pc = "discover"
    /\ serpKey
    /\ spent + Min(MaxCompetitorsAnalyzed, n) <= budget
    /\ spent' = spent + Min(MaxCompetitorsAnalyzed, n)
    /\ LET competitors == [k \in 1..Min(MaxCompetitorsAnalyzed, n) |->
                              Stub(CompetitorUrl(k), k)]
           started == Slice(competitors, 0, MaxCompetitorsAnalyzed)
       IN  /\ promises' = [k \in 1..Len(started) |->
                             [state |-> "pending", value |-> started[k]]]
           /\ calls' = [calls EXCEPT !.competitor = @ + Len(started)]
           /\ IF 0 < Len(started)
              THEN /\ pc' = "batch"
                   /\ UNCHANGED <<results, result, idx>>
              ELSE AttachAndPush(<<>>)
    /\ bi' = 0
    /\ analyzedCompetitors' = <<>>
    /\ batches' = <<>>
    /\ pauses' = 0
    /\ UNCHANGED <<cacheVars, envVars, unitVars, served, req, content,
                   marketIntelligence, response>>

DiscoverFailDegrades ==
    /\ pc = "discover"
    /\ results' = Append(results, DegradedResult(req.urls.list[idx],
                                                 "SerpAPI search failed"))
    /\ idx' = idx + 1
    /\ pc' = "loop"
    /\ calls' = [calls EXCEPT !.searchFailed = @ + 1]
    /\ UNCHANGED <<spent, cacheVars, envVars, unitVars, served, req, result,
                   content, promises, bi, analyzedCompetitors, batches, pauses,
                   marketIntelligence, response>>

\* findCompetitors throws: logged, the result goes out without competitors
DiscoverFail ==
    /\ pc = "discover"
    /\ results' = Append(results, result)
    /\ idx' = idx + 1
    /\ pc' = "loop"
    /\ calls' = [calls EXCEPT !.searchFailed = @ + 1]
    /\ UNCHANGED <<spent, cacheVars, envVars, unitVars, served, req, result,
                   content, promises, bi, analyzedCompetitors, batches, pauses,
                   marketIntelligence, response>>

\* analyzeCompetitor of the k-th competitor returns its record
CompetitorSettle(k, value) ==
    /\ k \in 1..Len(promises)
    /\ promises[k].state = "pending"
    /\ promises' = [promises EXCEPT ![k] = [state |-> "fulfilled", value |-> value]]
    /\ UNCHANGED <<spent, cacheVars, envVars, unitVars, served, req, pc, idx, results, result,
                   content, bi, analyzedCompetitors, batches, pauses, calls,
                   marketIntelligence, response>>

CompetitorSucceeds(k) ==
    \E es \in CompetitorEntityLists :
        CompetitorSettle(k, CompetitorSuccess(promises[k].value, Analysis(es)))

CompetitorFails(k) ==
    \E m \in FetchErrors :
        CompetitorSettle(k, CompetitorFailure(promises[k].value, m))

\* competitorAnalysisPromises.slice(i, i + batchSize)
Batch(ps, i) == Slice(ps, i, i + batchSize)

MoreBatchesInclusive(i, length) == i + batchSize <= length

\* i + batchSize < competitorAnalysisPromises.length
MoreBatches(i, length) == i + batchSize < length

BatchDoneUnawaited ==
    /\ pc = "batch"
    /\ LET batch == Batch(promises, bi)
           batchResults == [k \in 1..Len(batch) |-> batch[k].value]
       IN  /\ analyzedCompetitors' = analyzedCompetitors \o batchResults
           /\ batches' = Append(batches, Len(batch))
           /\ IF MoreBatches(bi, Len(promises))
              THEN /\ pc' = "pause"
                   /\ pauses' = pauses + 1
                   /\ UNCHANGED <<results, result, idx>>
              ELSE /\ AttachAndPush(analyzedCompetitors')
                   /\ UNCHANGED pauses
    /\ UNCHANGED <<spent, cacheVars, envVars, unitVars, served, req, content,
                   promises, bi, calls, marketIntelligence, response>>

\* Promise.all(batch) resolves: the batch's records are appended
BatchDone ==
    /\ pc = "batch"
    /\ LET batch == Batch(promises, bi)
           batchResults == [k \in 1..Len(batch) |-> batch[k].value]
       IN  /\ \A k \in 1..Len(batch) : batch[k].state = "fulfilled"
           /\ analyzedCompetitors' = analyzedCompetitors \o batchResults
           /\ batches' = Append(batches, Len(batch))
           /\ IF MoreBatches(bi, Len(promises))
              THEN /\ pc' = "pause"
                   /\ pauses' = pauses + 1
                   /\ UNCHANGED <<results, result, idx>>
              ELSE /\ AttachAndPush(analyzedCompetitors')
                   /\ UNCHANGED pauses
    /\ UNCHANGED <<spent, cacheVars, envVars, unitVars, served, req, content, promises, bi,
                   calls, marketIntelligence, response>>

\* the pause's timer fires: i += batchSize, the next batch is awaited
PauseDone ==
    /\ pc = "pause"
    /\ bi' = bi + batchSize
    /\ pc' = "batch"
    /\ UNCHANGED <<spent, cacheVars, envVars, unitVars, served, req, idx, results, result,
                   content, promises, analyzedCompetitors, batches, pauses,
                   calls, marketIntelligence, response>>

\* after the loop: market intelligence and the response
Respond ==
    /\ pc = "loop"
    /\ idx > Len(req.urls.list)
    /\ marketIntelligence' =
          IF ShouldGenerate(results)
          THEN <<generateMarketIntelligence(results)>> ELSE <<>>
    /\ response' =
          [status |-> 200,
           results |-> results,
           marketIntelligence |-> marketIntelligence',
           metadata |->
              [totalUrls |-> Len(req.urls.list),
               successfulAnalyses |-> SuccessfulAnalyses(results),
               competitorAnalysisEnabled |->
                   CompetitorAnalysisEnabled(req.findCompetitors, serpKey)]]
    /\ pc' = "idle"
    /\ UNCHANGED <<spent, cacheVars, envVars, unitVars, served, req, idx, results, result,
                   content, promises, bi, analyzedCompetitors, batches, pauses,
                   calls>>

Next ==
    \/ \E r \in Requests, d \in ArrivalDelays : ReceiveRequest(r, d)
    \/ Validate
    \/ Lookup
    \/ \E text \in {"text"} : FetchOk(text)
    \/ \E m \in FetchErrors : FetchFail(m)
    \/ \E es \in PrimaryEntityLists : GeminiOk(Analysis(es))
    \/ \E m \in ExtractErrors : GeminiFail(m)
    \/ \E n \in 0..MaxOrganic : DiscoverOk(n, MaxAnalyses)
    \/ DiscoverFail
    \/ \E k \in 1..MaxCompetitorsAnalyzed : CompetitorSucceeds(k)
    \/ \E k \in 1..MaxCompetitorsAnalyzed : CompetitorFails(k)
    \/ BatchDone
    \/ PauseDone
    \/ Respond

Spec == Init /\ [][Next]_vars

(***************************************************************************)
(* The competitor analysis of one requested url on its own: from the call  *)
(* of findCompetitors to the push of the result, with up to MaxOrganic     *)
(* organic results.                                                        *)
(***************************************************************************)
InitAnalyzer ==
    /\ EmptyCacheState
    /\ geminiKey = TRUE
    /\ serpKey = TRUE
    /\ served = 1
    /\ req = [bodyParses |-> TRUE,
              urls |-> [kind |-> "array", list |-> <<"u1">>],
              findCompetitors |-> "true"]
    /\ pc = "discover"
    /\ idx = 1
    /\ results = <<>>
    /\ result = PrimaryRecord("u1", Analysis(<<Entity("CRM", "Product")>>), "text")
    /\ content = "text"
    /\ promises = <<>>
    /\ bi = 0
    /\ analyzedCompetitors = <<>>
    /\ batches = <<>>
    /\ pauses = 0
    /\ calls = [fetch |-> 1, llm |-> 1, search |-> 1, searchFailed |-> 0,
             primaryFailed |-> 0, competitor |-> 0]
    /\ spent = 0
    /\ marketIntelligence = <<>>
    /\ response = NoResponse
    /\ arg = <<>>
    /\ ret = <<>>
    /\ handlers = <<>>

NextAnalyzer ==
    \/ \E n \in 0..MaxOrganic : DiscoverOk(n, MaxCompetitorsAnalyzed)
    \/ DiscoverFail
    \/ \E k \in 1..MaxCompetitorsAnalyzed : CompetitorSucceeds(k)
    \/ \E k \in 1..MaxCompetitorsAnalyzed : CompetitorFails(k)
    \/ BatchDone
    \/ PauseDone

SpecAnalyzer == InitAnalyzer /\ [][NextAnalyzer]_vars

(***************************************************************************)
(* The entity extractor, analyzeWithGemini.  The text of the model's       *)
(* response is a sequence of tokens: the two braces, a word of prose, the  *)
(* members of one entity object, and the summary and searchPhrase members. *)
(* A JSON value is tagged with its type where the code asks for it.        *)
(***************************************************************************)
MaxProse == 2         \* tokens of prose before and after the JSON object

Open == [c |-> "{"]
Close == [c |-> "}"]
Word == [c |-> "w"]
EntityToken(e) == [c |-> "e", entity |-> e]
MembersToken(m) == [c |-> "s", members |-> m]

Max(a, b) == IF a > b THEN a ELSE b

\* the text of a JSON object {"entities": [{...}, ...], "summary": ..., ...}
Stringify(obj) ==
    <<Open>>
      \o Concat([k \in 1..Len(obj.entities) |->
                    <<Open, EntityToken(obj.entities[k]), Close>>])
      \o (IF DOMAIN obj.members = {} THEN <<>> ELSE <<MembersToken(obj.members)>>)
      \o <<Close>>

\* text.match(/\{[\s\S]*\}/): from the first opening brace to the last
\* closing brace after it; <<>> is null
Match(text) ==
    LET opens == {k \in 1..Len(text) : text[k].c = "{"}
    IN  IF opens = {} THEN <<>>
        ELSE LET first == CHOOSE k \in opens : \A j \in opens : k <= j
                 closes == {k \in (first + 1)..Len(text) : text[k].c = "}"}
             IN  IF closes = {} THEN <<>>
                 ELSE LET last == CHOOSE k \in closes : \A j \in closes : j <= k
                      IN  <<SubSeq(text, first, last)>>

\* JSON.parse of a span of tokens: the value, or a SyntaxError
JsonParse(span) ==
    LET n == Len(span)
        inner == SubSeq(span, 2, n - 1)
        hasMembers == Len(inner) > 0 /\ inner[Len(inner)].c = "s"
        ents == IF hasMembers THEN SubSeq(inner, 1, Len(inner) - 1) ELSE inner
        wellFormed ==
            /\ n >= 2
            /\ span[1].c = "{"
            /\ span[n].c = "}"
            /\ Len(ents) % 3 = 0
            /\ \A k \in 1..Len(ents) :
                  ents[k].c = CASE k % 3 = 1 -> "{"
                                [] k % 3 = 2 -> "e"
                                [] OTHER -> "}"
    IN  IF wellFormed
        THEN [threw |-> FALSE,
              value |-> Spread([entities |-> [k \in 1..(Len(ents) \div 3) |->
                                                 ents[3 * k - 1].entity]],
                               IF hasMembers THEN inner[Len(inner)].members
                               ELSE <<>>)]
        ELSE [threw |-> TRUE, message |-> "Unexpected token"]

\* String.prototype.trim on the names of the model
trim(s) ==
    CASE s = " Api " -> "Api"
      [] OTHER -> s

ClampUpperOnly(c) == Min(95, c)

\* Math.min(95, Math.max(60, e.confidence))
Clamp(c) == Min(95, Max(60, c))

\* e.name && typeof e.confidence === 'number'
Keep(e) == e.name # "" /\ "number" \in DOMAIN e.confidence

CleanEntity(e) ==
    [name |-> trim(e.name),
     confidence |-> Clamp(e.confidence.number),
     category |-> CategoryOf(e)]

\* (parsed.entities || []).filter(...).map(...)
CleanEntities(parsed) ==
    LET kept == SelectSeq(parsed.entities, Keep)
    IN  [k \in 1..Len(kept) |-> CleanEntity(kept[k])]

\* parsed[field] || fallback
OrElse(parsed, field, fallback) ==
    IF field \in DOMAIN parsed /\ parsed[field] # "" THEN parsed[field]
    ELSE fallback

\* analyzeWithGemini on what gemini.generateContent does: it rejects, or it
\* returns a text
analyzeWithGemini(llm) ==
    IF llm.kind = "rejects" THEN [threw |-> TRUE, message |-> llm.message]
    ELSE LET jsonMatch == Match(llm.text)
         IN  IF jsonMatch = <<>>
             THEN [threw |-> TRUE, message |-> "No JSON found in response"]
             ELSE LET parsed == JsonParse(jsonMatch[1])
                  IN  IF parsed.threw
                      THEN [threw |-> TRUE, message |-> parsed.message]
                      ELSE [threw |-> FALSE,
                            value |->
                               [entities |-> CleanEntities(parsed.value),
                                summary |->
                                   OrElse(parsed.value, "summary",
                                          "Business analysis unavailable"),
                                searchPhrase |->
                                   OrElse(parsed.value, "searchPhrase",
                                          "business software tools")]]

\* the confidences a model can return: below, at, inside, above the range
Confidences == {0 - 5, 0, 10, 59, 60, 61, 85, 94, 95, 96, 150}

Number(n) == [number |-> n]

\* the entity objects of a response: every confidence, a confidence that is
\* no number, an empty name, a name with blanks around it, no category
RawEntities ==
    {[name |-> "CRM", confidence |-> Number(c), category |-> "Product"] :
        c \in Confidences}
      \cup {[name |-> "CRM", confidence |-> [string |-> "85"],
             category |-> "Product"],
            [name |-> "", confidence |-> Number(85), category |-> "Product"],
            [name |-> " Api ", confidence |-> Number(150)]}

RawEntityLists ==
    {<<>>} \cup {<<e>> : e \in RawEntities}
      \cup {<<[name |-> "CRM", confidence |-> [string |-> "85"],
               category |-> "Product"],
              [name |-> " Api ", confidence |-> Number(10)],
              [name |-> "CRM", confidence |-> Number(72), category |-> "Product"]>>}

NoMembers == <<>>

RawMembers ==
    {NoMembers, [summary |-> "summary", searchPhrase |-> "phrase"]}

ProseTokens == {Word, Open, Close}

\* the response: prose, one JSON object (or none), prose
LlmText(a) ==
    [kind |-> "text",
     text |-> a.before
                \o (IF a.object = <<>> THEN <<>> ELSE Stringify(a.object[1]))
                \o a.after]

LlmOf(a) ==
    IF a.kind = "rejects" THEN [kind |-> "rejects", message |-> a.message]
    ELSE LlmText(a)

InitExtractor ==
    /\ EmptyCacheState
    /\ geminiKey = TRUE
    /\ serpKey = TRUE
    /\ IdleHandler
    /\ pc = "analyzeWithGemini"
    /\ \/ arg = [kind |-> "rejects", message |-> "quota exceeded"]
       \/ \E nb \in 0..MaxProse, na \in 0..MaxProse :
            \E b \in [1..nb -> ProseTokens], a \in [1..na -> ProseTokens] :
               \/ arg = [kind |-> "text", before |-> b, object |-> <<>>,
                         after |-> a]
               \/ \E es \in RawEntityLists, m \in RawMembers :
                     arg = [kind |-> "text", before |-> b,
                            object |-> <<[entities |-> es, members |-> m]>>,
                            after |-> a]
    /\ ret = <<>>
    /\ handlers = <<>>

RunExtractor ==
    /\ pc = "analyzeWithGemini"
    /\ ret' = <<analyzeWithGemini(LlmOf(arg))>>
    /\ pc' = "returned"
    /\ UNCHANGED <<cacheVars, envVars, arg, handlers, served, req, idx, results, result,
                   content, promises, bi, analyzedCompetitors, batches, pauses,
                   calls, spent, marketIntelligence, response>>

NextExtractor == RunExtractor

SpecExtractor == InitExtractor /\ [][NextExtractor]_vars

(***************************************************************************)
(* The content fetcher, extractContent.  fetch rejects (network error,     *)
(* abort by the timeout) or resolves to a response with a status and a     *)
(* page; of the page the model keeps the text of the first content element *)
(* (<<>> when no selector matches) and the text of the body.               *)
(***************************************************************************)
ResponseOkAlways(status) == TRUE

\* response.ok
ResponseOk(status) == 200 <= status /\ status <= 299

\* .replace(/\s+/g, ' ').trim().substring(0, 8000) on the texts of the model
Normalise(text) ==
    CASE text = "  main   text " -> "main text"
      [] text = "9000 characters" -> "8000 characters"
      [] OTHER -> text

\* the loop over contentSelectors, then the fallback to document.body
SelectContent(html) ==
    LET picked == IF html.selected = <<>> THEN "" ELSE html.selected[1]
    IN  IF picked = "" THEN html.body ELSE picked

extractContent(http) ==
    IF http.kind = "rejects" THEN [threw |-> TRUE, message |-> http.message]
    ELSE IF ~ResponseOk(http.status)
         THEN [threw |-> TRUE, message |-> "HTTP " \o ToString(http.status)]
         ELSE [threw |-> FALSE, value |-> Normalise(SelectContent(http.html))]

StatusCodes ==
    {200, 201, 204, 299, 300, 301, 304, 400, 401, 403, 404, 410, 429, 500,
     502, 503}

Pages ==
    {[selected |-> <<"  main   text ">>, body |-> "body text"],
     [selected |-> <<"">>, body |-> "body text"],
     [selected |-> <<>>, body |-> "body text"],
     [selected |-> <<>>, body |-> "9000 characters"],
     [selected |-> <<>>, body |-> ""]}

HttpOutcomes ==
    {[kind |-> "rejects", message |-> m] :
        m \in {"fetch failed", "This operation was aborted"}}
      \cup [kind : {"response"}, status : StatusCodes, html : Pages]

InitFetcher ==
    /\ EmptyCacheState
    /\ geminiKey = TRUE
    /\ serpKey = TRUE
    /\ IdleHandler
    /\ pc = "extractContent"
    /\ arg \in HttpOutcomes
    /\ ret = <<>>
    /\ handlers = <<>>

RunFetcher ==
    /\ pc = "extractContent"
    /\ ret' = <<extractContent(arg)>>
    /\ pc' = "returned"
    /\ UNCHANGED <<cacheVars, envVars, arg, handlers, served, req, idx, results, result,
                   content, promises, bi, analyzedCompetitors, batches, pauses,
                   calls, spent, marketIntelligence, response>>

NextFetcher == RunFetcher

SpecFetcher == InitFetcher /\ [][NextFetcher]_vars

(***************************************************************************)
(* The analysis of one competitor, analyzeCompetitor.                      *)
(***************************************************************************)
analyzeCompetitorRethrows(competitor, http, llm) ==
    LET fetched == extractContent(http)
    IN  IF fetched.threw THEN fetched
        ELSE LET analysis == analyzeWithGemini(llm)
             IN  IF analysis.threw THEN analysis
                 ELSE CompetitorSuccess(competitor, analysis.value)

analyzeCompetitor(competitor, http, llm) ==
    LET fetched == extractContent(http)
    IN  IF fetched.threw THEN CompetitorFailure(competitor, fetched.message)
        ELSE LET analysis == analyzeWithGemini(llm)
             IN  IF analysis.threw
                 THEN CompetitorFailure(competitor, analysis.message)
                 ELSE CompetitorSuccess(competitor, analysis.value)

Stubs == {Stub(CompetitorUrl(k), k) : k \in 1..3}

\* responses of the model: none, no JSON, a brace in the prose, an object
LlmOutcomes ==
    {[kind |-> "rejects", message |-> "quota exceeded"],
     [kind |-> "text", text |-> <<Word>>],
     [kind |-> "text",
      text |-> <<Open, Word>> \o Stringify([entities |-> <<>>,
                                            members |-> NoMembers])],
     [kind |-> "text",
      text |-> Stringify([entities |-> <<>>, members |-> NoMembers])],
     [kind |-> "text",
      text |-> <<Word>>
                 \o Stringify([entities |->
                                  <<[name |-> " Api ",
                                     confidence |-> Number(150)]>>,
                               members |-> [summary |-> "summary",
                                            searchPhrase |-> "phrase"]])]}

InitCompetitor ==
    /\ EmptyCacheState
    /\ geminiKey = TRUE
    /\ serpKey = TRUE
    /\ IdleHandler
    /\ pc = "analyzeCompetitor"
    /\ arg \in [competitor : Stubs, http : HttpOutcomes, llm : LlmOutcomes]
    /\ ret = <<>>
    /\ handlers = <<>>

RunCompetitor ==
    /\ pc = "analyzeCompetitor"
    /\ ret' = <<analyzeCompetitor(arg.competitor, arg.http, arg.llm)>>
    /\ pc' = "returned"
    /\ UNCHANGED <<cacheVars, envVars, arg, handlers, served, req, idx, results, result,
                   content, promises, bi, analyzedCompetitors, batches, pauses,
                   calls, spent, marketIntelligence, response>>

NextCompetitor == RunCompetitor

SpecCompetitor == InitCompetitor /\ [][NextCompetitor]_vars

(***************************************************************************)
(* The frontend's processing of a response, handleAnalyze: the numbers it  *)
(* formats into the topics and the insights of the market intelligence.    *)
(* Math.round is computed on exact quotients.                              *)
(***************************************************************************)
\* Math.round(num / den) for num >= 0, den > 0
RoundDiv(num, den) == (2 * num + den) \div (2 * den)

TopicUnchecked(entity, totalSites) ==
    [name |-> entity.name,
     actualSites |-> RoundDiv(entity.frequency * totalSites, 100),
     totalSites |-> totalSites,
     percentage |-> entity.frequency]

\* one element of topics: `${name} (${actualSites}/${totalSites} sites - ${percentage}%)`
Topic(entity, totalSites) ==
    LET rawFreq == entity.frequency
        sites == IF rawFreq > 100
                 THEN Min(RoundDiv(rawFreq, 100), totalSites)
                 ELSE RoundDiv(Min(rawFreq, 100) * totalSites, 100)
        percent == IF rawFreq > 100 THEN RoundPercent(sites, totalSites)
                   ELSE Min(rawFreq, 100)
    IN  [name |-> entity.name,
         actualSites |-> IF sites > totalSites THEN totalSites ELSE sites,
         totalSites |-> totalSites,
         percentage |-> IF percent > 100 THEN 100 ELSE percent]

\* one opportunity of insights:
\* `"${entity}" mentioned by ${sitesWithGap}/${totalSites} sites (${coverage}% coverage)`
Opportunity(gap, totalSites) ==
    LET coverage == Min(gap.coverage, 100)
    IN  [entity |-> gap.entity,
         sitesWithGap |-> RoundDiv(coverage * totalSites, 100),
         totalSites |-> totalSites,
         coverage |-> coverage]

\* data.results[0].competitors.filter(comp => comp.success)
successfulCompetitors(data) ==
    IF "competitors" \in DOMAIN data.results[1]
    THEN Len(SelectSeq(data.results[1].competitors, LAMBDA c : c.success))
    ELSE 0

\* processedResults.marketIntelligence for a response with market intelligence
handleAnalyze(data) ==
    LET mi == data.marketIntelligence[1]
        totalSites == 1 + successfulCompetitors(data)
    IN  [totalSites |-> totalSites,
         topics |-> [k \in 1..Len(mi.commonEntities) |->
                        Topic(mi.commonEntities[k], totalSites)],
         insights |-> [k \in 1..Len(mi.competitiveGaps) |->
                          Opportunity(mi.competitiveGaps[k], totalSites)]]

\* the percentages a response can carry: those of a sound backend, and more
RawPercentages ==
    {0, 20, 25, 30, 33, 40, 50, 67, 100, 101, 149, 150, 200, 250, 300, 1100}

InitFrontend ==
    /\ EmptyCacheState
    /\ geminiKey = TRUE
    /\ serpKey = TRUE
    /\ IdleHandler
    /\ pc = "handleAnalyze"
    /\ \E cs \in CompetitorLists, nc \in 0..1, ng \in 0..1 :
         \E fs \in [1..nc -> RawPercentages], gs \in [1..ng -> RawPercentages] :
            arg = [results |->
                      <<Spread(PrimaryRecord("u1", Analysis(<<>>), "text"),
                               [competitors |-> cs])>>,
                   marketIntelligence |->
                      <<[commonEntities |->
                            [k \in 1..nc |-> [name |-> "crm", frequency |-> fs[k]]],
                         industryDistribution |-> <<>>,
                         competitiveGaps |->
                            [k \in 1..ng |-> [entity |-> "api", coverage |-> gs[k]]],
                         uniquePositioning |-> <<>>]>>]
    /\ ret = <<>>
    /\ handlers = <<>>

RunFrontend ==
    /\ pc = "handleAnalyze"
    /\ ret' = <<handleAnalyze(arg)>>
    /\ pc' = "returned"
    /\ UNCHANGED <<cacheVars, envVars, arg, handlers, served, req, idx, results, result,
                   content, promises, bi, analyzedCompetitors, batches, pauses,
                   calls, spent, marketIntelligence, response>>

NextFrontend == RunFrontend

SpecFrontend == InitFrontend /\ [][NextFrontend]_vars

(***************************************************************************)
(* Requests that run concurrently.  The handlers share the cache; a        *)
(* handler runs alone between two awaits, so a step of the model is the    *)
(* code of one handler from one await to the next: the cache lookup up to  *)
(* the await of extractContent, the return of extractContent up to the     *)
(* await of analyzeWithGemini, and its return with setCache.  Each handler *)
(* analyzes one url without competitor discovery.                          *)
(***************************************************************************)
MaxHandlers == 2      \* requests that run concurrently

Handler(url) ==
    [pc |-> "start", url |-> url, content |-> "", fetched |-> FALSE,
     extracted |-> FALSE, wrote |-> <<>>, result |-> <<>>]

InitConcurrent ==
    /\ EmptyCacheState
    /\ geminiKey = TRUE
    /\ serpKey = TRUE
    /\ IdleHandler
    /\ pc = "concurrent"
    /\ arg = <<>>
    /\ ret = <<>>
    /\ \E us \in [1..MaxHandlers -> Urls] :
          handlers = [p \in 1..MaxHandlers |-> Handler(us[p])]

\* getFromCache(cacheKey); on a miss extractContent is called
HandlerLookup(p) ==
    /\ handlers[p].pc = "start"
    /\ LET r == getFromCache(cache, CacheKey(handlers[p].url), now)
       IN  /\ cache' = r.cache
           /\ handlers' =
                 [handlers EXCEPT ![p] =
                     IF r.data # <<>>
                     THEN [@ EXCEPT !.pc = "done", !.result = r.data]
                     ELSE [@ EXCEPT !.pc = "fetch", !.fetched = TRUE]]
    /\ UNCHANGED <<now, ticks, stored, got, envVars, arg, ret, handlerVars>>

\* extractContent returns; analyzeWithGemini is called
HandlerFetchOk(p, text) ==
    /\ handlers[p].pc = "fetch"
    /\ handlers' = [handlers EXCEPT ![p] =
                       [@ EXCEPT !.pc = "llm", !.content = text,
                                 !.extracted = TRUE]]
    /\ UNCHANGED <<cacheVars, envVars, arg, ret, handlerVars>>

\* extractContent or analyzeWithGemini throws: the degraded result
HandlerFail(p, message) ==
    /\ handlers[p].pc \in {"fetch", "llm"}
    /\ handlers' = [handlers EXCEPT ![p] =
                       [@ EXCEPT !.pc = "done",
                                 !.result = <<DegradedResult(handlers[p].url,
                                                             message)>>]]
    /\ UNCHANGED <<cacheVars, envVars, arg, ret, handlerVars>>

\* analyzeWithGemini returns: setCache(cacheKey, cachedResult)
HandlerGeminiOk(p, analysis) ==
    /\ handlers[p].pc = "llm"
    /\ LET cachedResult ==
               PrimaryRecord(handlers[p].url, analysis, handlers[p].content)
           key == CacheKey(handlers[p].url)
       IN  /\ cache' = setCache(cache, key, cachedResult, now)
           /\ stored' = MapSet(stored, key,
                               [data |-> cachedResult, timestamp |-> now])
           /\ handlers' =
                 [handlers EXCEPT ![p] =
                     [@ EXCEPT !.pc = "done",
                               !.wrote = <<[data |-> cachedResult,
                                            timestamp |-> now]>>,
                               !.result = <<cachedResult>>]]
    /\ UNCHANGED <<now, ticks, got, envVars, arg, ret, handlerVars>>

NextConcurrent ==
    \/ Tick
    \/ \E p \in 1..MaxHandlers : HandlerLookup(p)
    \/ \E p \in 1..MaxHandlers, text \in {"text", "new text"} :
          HandlerFetchOk(p, text)
    \/ \E p \in 1..MaxHandlers, m \in FetchErrors : HandlerFail(p, m)
    \/ \E p \in 1..MaxHandlers, es \in PrimaryEntityLists :
          HandlerGeminiOk(p, Analysis(es))

SpecConcurrent == InitConcurrent /\ [][NextConcurrent]_vars

(***************************************************************************)
(* The content fetcher in time.  extractContent arms a timer that aborts   *)
(* the request, awaits fetch (which resolves when the response headers     *)
(* have arrived), clears the timer, and then awaits response.text() (which *)
(* resolves when the body is complete).  The upstream server decides when  *)
(* the headers arrive and how long the body takes, if ever.  An event that *)
(* is due happens before the clock moves on.                               *)
(***************************************************************************)
FetchTimeout == 10000

MaxTimeSteps == 10    \* steps of the clock during one call

TimeStep == FetchTimeout \div 4

Never == 0 - 1

\* the upstream server: no response at all, headers at once or late, a body
\* that is there at once, slow, or never complete
Upstreams ==
    [kind : {"response"},
     headersAt : {0, TimeStep, 3 * TimeStep, FetchTimeout, Never},
     bodyTakes : {0, TimeStep, 2 * TimeStep, 5 * TimeStep, Never},
     status : {200, 404},
     html : {[selected |-> <<>>, body |-> "body text"]}]
      \cup [kind : {"rejects"}, headersAt : {0, 2 * TimeStep},
            message : {"fetch failed"}]

InitTimeout ==
    /\ EmptyCacheState
    /\ geminiKey = TRUE
    /\ serpKey = TRUE
    /\ IdleHandler
    /\ pc = "fetch"
    /\ arg \in Upstreams
    /\ ret = <<>>
    /\ handlers = <<>>

\* an event of the call is due now
Due ==
    \/ pc = "fetch" /\ now \in {arg.headersAt, FetchTimeout}
    \/ pc = "text" /\ now = arg.headersAt + arg.bodyTakes /\ arg.bodyTakes # Never

Elapse ==
    /\ pc \in {"fetch", "text"}
    /\ ~Due
    /\ ticks < MaxTimeSteps
    /\ now' = now + TimeStep
    /\ ticks' = ticks + 1
    /\ UNCHANGED <<cache, stored, got, envVars, unitVars, handlerVars>>

\* fetch settles: it rejects, or it resolves and the timer is cleared; a
\* status that is not ok is thrown at once
HeadersArrive ==
    /\ pc = "fetch"
    /\ now = arg.headersAt
    /\ IF arg.kind = "rejects" \/ ~ResponseOk(arg.status)
       THEN /\ ret' = <<extractContent(arg)>>
            /\ pc' = "returned"
       ELSE /\ ret' = ret
            /\ pc' = "text"
    /\ UNCHANGED <<cacheVars, envVars, arg, handlers, served, req, idx,
                   results, result, content, promises, bi,
                   analyzedCompetitors, batches, pauses, calls, spent,
                   marketIntelligence, response>>

\* the timer fires while fetch is pending: controller.abort(), fetch rejects
TimeoutFires ==
    /\ pc = "fetch"
    /\ now = FetchTimeout
    /\ ret' = <<[threw |-> TRUE, message |-> "This operation was aborted"]>>
    /\ pc' = "returned"
    /\ UNCHANGED <<cacheVars, envVars, arg, handlers, served, req, idx,
                   results, result, content, promises, bi,
                   analyzedCompetitors, batches, pauses, calls, spent,
                   marketIntelligence, response>>

\* response.text() resolves: the text is extracted and returned
BodyComplete ==
    /\ pc = "text"
    /\ arg.bodyTakes # Never
    /\ now = arg.headersAt + arg.bodyTakes
    /\ ret' = <<extractContent(arg)>>
    /\ pc' = "returned"
    /\ UNCHANGED <<cacheVars, envVars, arg, handlers, served, req, idx,
                   results, result, content, promises, bi,
                   analyzedCompetitors, batches, pauses, calls, spent,
                   marketIntelligence, response>>

NextTimeout ==
    \/ Elapse
    \/ HeadersArrive
    \/ TimeoutFires
    \/ BodyComplete

\* time passes and an event that is due happens
SpecTimeout ==
    InitTimeout /\ [][NextTimeout]_vars /\ WF_vars(NextTimeout)

(***************************************************************************)
(* The aggregator on many names: generateMarketIntelligence applied to     *)
(* result lists in which up to MaxNames names are spread over the primary  *)
(* results, so that more than ten names can qualify for a list.            *)
(***************************************************************************)
MaxNames == 12        \* distinct entity names in a result list
MaxSites == 10        \* primary results in such a result list

RankName(j) == "e" \o ToString(j)

RankNames == {RankName(j) : j \in 1..MaxNames}

\* the number of primary results that carry the j-th name
SpreadOf(j, a, b, n) == Min(n, 1 + ((a * j + b) % 5))

\* the k-th of n primary results: it carries the names spread over k or more
RankedResult(k, count, a, b, n) ==
    LET js == SelectSeq([j \in 1..count |-> j],
                        LAMBDA j : SpreadOf(j, a, b, n) >= k)
    IN  PrimaryRecord(PrimaryUrl(k),
                      Analysis([i \in 1..Len(js) |->
                                   Entity(RankName(js[i]), "Product")]),
                      "text")

\* a competitor of the first result that carries the first three names
RankedCompetitor ==
    CompetitorSuccess(Stub("c1", 1),
                      Analysis([j \in 1..3 |-> Entity(RankName(j), "Product")]))

InitRanking ==
    /\ EmptyCacheState
    /\ geminiKey = TRUE
    /\ serpKey = TRUE
    /\ served = 0
    /\ req = [bodyParses |-> FALSE]
    /\ idx = 0
    /\ \E n \in {2, MaxSites}, count \in 0..MaxNames, a \in 0..4, b \in 0..4,
          withCompetitor \in BOOLEAN :
          results = [k \in 1..n |->
                       IF k = 1 /\ withCompetitor
                       THEN Spread(RankedResult(k, count, a, b, n),
                                   [competitors |-> <<RankedCompetitor>>])
                       ELSE RankedResult(k, count, a, b, n)]
    /\ result = [url |-> ""]
    /\ content = ""
    /\ promises = <<>>
    /\ bi = 0
    /\ analyzedCompetitors = <<>>
    /\ batches = <<>>
    /\ pauses = 0
    /\ calls = NoCalls
    /\ spent = 0
    /\ marketIntelligence = <<>>
    /\ response = [status |-> 0]
    /\ arg = <<>>
    /\ ret = <<>>
    /\ handlers = <<>>
    /\ pc = "aggregate"

NextRanking == RunAggregator

SpecRanking == InitRanking /\ [][NextRanking]_vars

(***************************************************************************)
(* Properties.                                                             *)
(***************************************************************************)
\* competitor analyses started and not yet returned
InFlight == Cardinality({k \in 1..Len(promises) : promises[k].state = "pending"})

\* the handler has answered the request in req
Responded == pc = "idle" /\ served > 0

\* the competitor loop of the url is over and its result is pushed
AnalyzerDone == pc = "loop" /\ Len(results) = 1 /\ "competitors" \in DOMAIN results[1]

CeilDiv(a, b) == (a + b - 1) \div b

\* C1: during the competitor analysis of one requested url, at most 3
\* competitor analyses are in flight at any moment.
C1_AtMostThreeInFlight == InFlight <= batchSize

\* C2: the n stubs used (n <= 10) are awaited in consecutive batches of 3 with
\* the remainder last, a pause is taken only between two batches (ceil(n/3)-1
\* pauses, none after the last batch), and the competitors attached to the
\* result are one record per stub, in discovery order, each with a boolean
\* success.
C2_BatchesPausesRecords ==
    LET n == Len(promises)
        m == CeilDiv(n, batchSize)
    IN  /\ n <= MaxCompetitorsAnalyzed
        /\ pauses <= Len(batches)
        /\ pc = "pause" => pauses = Len(batches) /\ Len(batches) < m
        /\ \A j \in 1..Len(batches) :
              batches[j] = IF j < m THEN batchSize ELSE n - batchSize * (m - 1)
        /\ AnalyzerDone =>
              /\ Len(batches) = m
              /\ pauses = IF n >= 1 THEN m - 1 ELSE 0
              /\ Len(results[1].competitors) = n
              /\ \A k \in 1..n :
                    /\ results[1].competitors[k].url = CompetitorUrl(k)
                    /\ results[1].competitors[k].position = k
                    /\ results[1].competitors[k].success \in BOOLEAN
                    /\ results[1].competitors[k].success
                          <=> "entities" \in DOMAIN results[1].competitors[k]

C2_TenStubsDone ==
    /\ AnalyzerDone
    /\ Len(promises) = 10
    /\ batches = <<3, 3, 3, 1>>
    /\ pauses = 3
    /\ results[1].competitors[1].success
    /\ ~results[1].competitors[10].success

\* C3: a getFromCache(key) at time t after a setCache(key, v) at storeTime
\* returns v and keeps the entry when t - storeTime < TTL, and returns null
\* and removes the entry when t - storeTime >= TTL.
C3_SetThenGet ==
    [][\A key \in CacheKeys :
          (got'.flip # got.flip /\ got'.key = key /\ key \in DOMAIN stored) =>
              IF now - stored[key].timestamp < CACHE_TTL
              THEN /\ got'.data = <<stored[key].data>>
                   /\ key \in DOMAIN cache'
                   /\ cache'[key] = stored[key]
              ELSE /\ got'.data = <<>>
                   /\ key \notin DOMAIN cache']_vars

\* a get exactly one TTL after the set found nothing and removed the entry
C3_ExpiredAtTtl ==
    /\ got.key \in DOMAIN stored
    /\ got.at = now
    /\ now - stored[got.key].timestamp = CACHE_TTL
    /\ got.data = <<>>
    /\ got.key \notin DOMAIN cache

\* C4: every frequency in commonEntities and every coverage in
\* competitiveGaps is a percentage between 0 and 100.
C4_PercentagesWithin100 ==
    marketIntelligence # <<>> =>
        /\ \A e \in Range(marketIntelligence[1].commonEntities) :
              e.frequency >= 0 /\ e.frequency <= 100
        /\ \A g \in Range(marketIntelligence[1].competitiveGaps) :
              g.coverage >= 0 /\ g.coverage <= 100

\* C5: commonEntities holds no entry with frequency below 40, and
\* competitiveGaps no entry with coverage below 20 or above 30.
C5_Thresholds ==
    marketIntelligence # <<>> =>
        /\ \A e \in Range(marketIntelligence[1].commonEntities) :
              ~(e.frequency < 40)
        /\ \A g \in Range(marketIntelligence[1].competitiveGaps) :
              ~(g.coverage < 20) /\ ~(g.coverage > 30)

\* four sites: a name on two of them is common, a name on one of them is a gap
C5_BothListsFilled ==
    /\ marketIntelligence # <<>>
    /\ Len(results) = 4
    /\ \E e \in Range(marketIntelligence[1].commonEntities) : e.frequency = 50
    /\ \E g \in Range(marketIntelligence[1].competitiveGaps) : g.coverage = 25

\* C6: with a single primary result, whatever competitors it carries, every
\* entity frequency is 0 or 100 and competitiveGaps is empty.
C6_SingleSite ==
    (marketIntelligence # <<>> /\ Len(results) = 1) =>
        /\ \A e \in Range(marketIntelligence[1].commonEntities) :
              e.frequency \in {0, 100}
        /\ marketIntelligence[1].competitiveGaps = <<>>

\* C7: market intelligence is generated exactly when 2 or more urls were
\* requested, or 1 url was requested and at least one of its competitors was
\* analyzed successfully; otherwise it is null.
C7_GeneratedIffTwoSites ==
    (Responded /\ response.status = 200) =>
        (response.marketIntelligence # <<>>
           <=> \/ Len(req.urls.list) >= 2
               \/ /\ Len(req.urls.list) = 1
                  /\ "competitors" \in DOMAIN response.results[1]
                  /\ \E c \in Range(response.results[1].competitors) : c.success)

\* the urls of the request are missing, no array or empty; a body that was
\* not read has no urls
NoUsableUrls(r) == ~r.bodyParses \/ UrlsInvalid(r.urls)

C9_BadUrlsAnyBody ==
    (Responded /\ NoUsableUrls(req)) =>
        /\ response.status = 400
        /\ "error" \in DOMAIN response
        /\ calls = NoCalls

\* C9 amended: a request whose body was read and whose urls are missing, no
\* array or empty is answered with 400 and an error field, before the LLM
\* credential is looked at, without any fetch, LLM or search call and without
\* a change to the cache.
C9_BadUrls ==
    [][(pc = "json" /\ req.bodyParses /\ UrlsInvalid(req.urls)) =>
          /\ pc' = "idle"
          /\ response'.status = 400
          /\ "error" \in DOMAIN response'
          /\ calls' = NoCalls
          /\ promises' = <<>>
          /\ cache' = cache]_vars

\* a 400 sent by a server whose cache holds an entry
C9_BadUrlsFilledCache ==
    /\ Responded
    /\ req.bodyParses
    /\ UrlsInvalid(req.urls)
    /\ response.status = 400
    /\ DOMAIN cache # {}

\* what C10 says of a response to a request with findCompetitors = true when
\* no search credential is configured
NoCompetitorWork ==
    /\ response.status = 200
    /\ calls.search = 0
    /\ calls.competitor = 0
    /\ \A k \in 1..Len(response.results) :
          \/ "competitors" \notin DOMAIN response.results[k]
          \/ response.results[k].competitors = <<>>
    /\ response.metadata.competitorAnalysisEnabled = "false"

EnabledOnlyWithCredential ==
    (Responded /\ response.status = 200
       /\ response.metadata.competitorAnalysisEnabled = "true")
      => (req.findCompetitors = "true" /\ serpKey)

\* C10 as stated: with no search credential, a request with non-empty urls
\* and findCompetitors = true gets a 200 without discovery or competitor
\* analysis, competitors absent or empty, competitorAnalysisEnabled false.
C10_NoSearchCredential ==
    /\ (Responded /\ ~serpKey /\ req.bodyParses /\ ~UrlsInvalid(req.urls)
          /\ req.findCompetitors = "true") => NoCompetitorWork
    /\ EnabledOnlyWithCredential

\* C10 amended: the same, for a server whose LLM credential is configured.
C10_NoSearchCredentialWithLlmKey ==
    /\ (Responded /\ geminiKey /\ ~serpKey /\ req.bodyParses
          /\ ~UrlsInvalid(req.urls) /\ req.findCompetitors = "true")
         => NoCompetitorWork
    /\ EnabledOnlyWithCredential

C10_AnalyzedWithoutSearch ==
    /\ Responded
    /\ geminiKey
    /\ ~serpKey
    /\ req.bodyParses
    /\ ~UrlsInvalid(req.urls)
    /\ req.findCompetitors = "true"
    /\ response.status = 200
    /\ \E k \in 1..Len(response.results) :
          /\ Len(response.results[k].entities) > 0
          /\ "competitors" \notin DOMAIN response.results[k]
    /\ response.metadata.competitorAnalysisEnabled = "false"

\* the extractor returned a value for a response holding a JSON object
Extracted ==
    /\ pc = "returned"
    /\ arg.kind = "text"
    /\ arg.object # <<>>
    /\ ~ret[1].threw

\* C11: every entity the extractor returns has a confidence between 60 and
\* 95, whatever number the model returned: a value above 95 becomes 95, a
\* value below 60 becomes 60, a value in the range is unchanged.
C11_ConfidenceClamped ==
    Extracted =>
        LET raw == SelectSeq(arg.object[1].entities, Keep)
            out == ret[1].value.entities
        IN  /\ Len(out) = Len(raw)
            /\ \A k \in 1..Len(out) :
                  /\ 60 <= out[k].confidence /\ out[k].confidence <= 95
                  /\ out[k].confidence =
                        IF raw[k].confidence.number > 95 THEN 95
                        ELSE IF raw[k].confidence.number < 60 THEN 60
                        ELSE raw[k].confidence.number

\* the model returned 10 and 72 in one response: 60 and 72 came out
C11_BelowAndInside ==
    /\ Extracted
    /\ Len(ret[1].value.entities) = 2
    /\ arg.object[1].entities[2].confidence = Number(10)
    /\ ret[1].value.entities[1].confidence = 60
    /\ ret[1].value.entities[2].confidence = 72

\* C13: for every response that holds one well-formed JSON object between
\* prose that may itself contain braces, the extractor succeeds and parses
\* exactly that object.
C13_ProseIgnored ==
    (pc = "returned" /\ arg.kind = "text" /\ arg.object # <<>>) =>
        /\ ~ret[1].threw
        /\ ret[1].value.entities = CleanEntities(arg.object[1])

\* the lower-cased entity names of the model
Names == {"crm", "api"}

HasName(entities, name) ==
    \E k \in 1..Len(entities) : toLowerCase(entities[k].name) = name

\* the urls of the sites, primary or successfully analyzed competitor, whose
\* entities carry the name
SitesWith(rs, name) ==
    {rs[k].url : k \in {j \in 1..Len(rs) : HasName(rs[j].entities, name)}}
      \cup UNION {{c.url : c \in {d \in Range(rs[k].competitors) :
                                    /\ "entities" \in DOMAIN d
                                    /\ HasName(d.entities, name)}} :
                  k \in {j \in 1..Len(rs) : "competitors" \in DOMAIN rs[j]}}

Reported(mi, name) ==
    \/ \E e \in Range(mi.commonEntities) : e.name = name
    \/ \E g \in Range(mi.competitiveGaps) : g.entity = name

\* C12: a name whose rounded frequency lies strictly between 30 and 40 is
\* in neither commonEntities nor competitiveGaps; with 3 primary urls, no
\* competitors and a name on exactly 1 of them, the frequency is 33 and the
\* name is in neither list.
C12_BetweenThirtyAndForty ==
    marketIntelligence # <<>> =>
        \A name \in Names :
            LET sites == Cardinality(SitesWith(results, name))
                f == RoundPercent(sites, Len(results))
            IN  /\ (30 < f /\ f < 40) => ~Reported(marketIntelligence[1], name)
                /\ (/\ Len(results) = 3
                    /\ \A k \in 1..3 : "competitors" \in DOMAIN results[k]
                                          => results[k].competitors = <<>>
                    /\ sites = 1)
                      => f = 33 /\ ~Reported(marketIntelligence[1], name)

\* three primary urls without competitors, "crm" on exactly one of them and
\* "api" on two
C12_OneOfThree ==
    /\ marketIntelligence # <<>>
    /\ Len(results) = 3
    /\ "competitors" \notin DOMAIN results[1]
    /\ Cardinality(SitesWith(results, "crm")) = 1
    /\ Cardinality(SitesWith(results, "api")) = 2
    /\ ~Reported(marketIntelligence[1], "crm")
    /\ Reported(marketIntelligence[1], "api")

\* C14: a fetcher call whose response has a status outside 200..299 fails
\* with an error that carries the status; it returns no content, empty or
\* not.
C14_StatusBearingError ==
    (pc = "returned" /\ arg.kind = "response"
       /\ (arg.status < 200 \/ arg.status > 299)) =>
        /\ ret[1].threw
        /\ ret[1].message = "HTTP " \o ToString(arg.status)
        /\ "value" \notin DOMAIN ret[1]

\* a 404 with an empty page failed with "HTTP 404"
C14_NotFound ==
    /\ pc = "returned"
    /\ arg.kind = "response"
    /\ arg.status = 404
    /\ arg.html.body = ""
    /\ ret = <<[threw |-> TRUE, message |-> "HTTP 404"]>>

\* C17: analyzing one competitor stub never raises: for every outcome of
\* the fetcher and of the extractor it returns a record that keeps the
\* stub's url, title, snippet and position, with success = true and the
\* entities when both steps succeeded, with success = false and an error
\* message when either failed.
C17_AlwaysARecord ==
    pc = "returned" =>
        LET r == ret[1]
            fetched == extractContent(arg.http)
            analysis == analyzeWithGemini(arg.llm)
        IN  /\ "threw" \notin DOMAIN r
            /\ {"url", "title", "snippet", "position", "success"}
                  \subseteq DOMAIN r
            /\ r.url = arg.competitor.url
            /\ r.title = arg.competitor.title
            /\ r.snippet = arg.competitor.snippet
            /\ r.position = arg.competitor.position
            /\ IF ~fetched.threw /\ ~analysis.threw
               THEN /\ r.success = TRUE
                    /\ "entities" \in DOMAIN r
                    /\ r.entities = analysis.value.entities
                    /\ "error" \notin DOMAIN r
               ELSE /\ r.success = FALSE
                    /\ "error" \in DOMAIN r
                    /\ r.error = IF fetched.threw THEN fetched.message
                                 ELSE analysis.message
                    /\ "entities" \notin DOMAIN r

\* the page was fetched and the extractor failed on a brace in the prose
C17_ExtractorFailed ==
    /\ pc = "returned"
    /\ arg.http.kind = "response"
    /\ arg.http.status = 200
    /\ arg.competitor.position = 2
    /\ ret[1].success = FALSE
    /\ ret[1].error = "Unexpected token"
    /\ ret[1].url = "c2"

\* C15: for every frequency and coverage received, values above 100
\* included, and every totalSites >= 1, the percentage the frontend displays
\* is at most 100 and the site count it displays is at most totalSites.
C15_DisplayedWithinBounds ==
    pc = "returned" =>
        /\ ret[1].totalSites >= 1
        /\ \A t \in Range(ret[1].topics) :
              /\ t.percentage <= 100
              /\ t.actualSites <= t.totalSites
              /\ t.totalSites = ret[1].totalSites
        /\ \A o \in Range(ret[1].insights) :
              /\ o.coverage <= 100
              /\ o.sitesWithGap <= o.totalSites
              /\ o.totalSites = ret[1].totalSites

\* a frequency of 250 and a coverage of 150 received for 3 sites
C15_AboveHundredReceived ==
    /\ pc = "returned"
    /\ ret[1].totalSites = 3
    /\ Len(arg.marketIntelligence[1].commonEntities) = 1
    /\ arg.marketIntelligence[1].commonEntities[1].frequency = 250
    /\ Len(arg.marketIntelligence[1].competitiveGaps) = 1
    /\ arg.marketIntelligence[1].competitiveGaps[1].coverage = 150
    /\ ret[1].topics[1].actualSites = 3
    /\ ret[1].topics[1].percentage = 100
    /\ ret[1].insights[1].coverage = 100

\* C16: batches of competitor analyses run strictly one after another: no
\* analysis of batch k+1 has started before every analysis of batch k has
\* completed and the pause after batch k has elapsed.
C16_BatchesSequential ==
    \A k \in 1..Len(promises) :
        promises[k].state \in {"pending", "fulfilled"}
            => (k - 1) \div batchSize <= bi \div batchSize

\* the fields of a degraded result
IsDegraded(r, url) ==
    /\ r.url = url
    /\ r.entities = <<>>
    /\ r.searchPhrase = ""
    /\ r.summary \in {"Analysis failed: " \o m : m \in FetchErrors \cup ExtractErrors}
    /\ "competitors" \in DOMAIN r
    /\ r.competitors = <<>>

\* the fields of the result of a primary analysis that succeeded
IsAnalyzed(r, url) ==
    /\ r.url = url
    /\ r.entities \in PrimaryEntityLists
    /\ r.searchPhrase = "phrase"
    /\ r.summary = "summary"

\* C18: when the primary fetcher or extractor step fails for one requested
\* url, a degraded result (empty entities, empty searchPhrase, summary
\* carrying the failure message, empty competitors) is pushed for that url
\* and the loop goes on with the next url; the other urls' results are those
\* of their own analyses.
C18_DegradedAndContinue ==
    /\ [][calls'.primaryFailed = calls.primaryFailed + 1 =>
             /\ pc \in {"fetch", "llm"}
             /\ Len(results') = Len(results) + 1
             /\ SubSeq(results', 1, Len(results)) = results
             /\ IsDegraded(results'[Len(results')], req.urls.list[idx])
             /\ idx' = idx + 1
             /\ pc' = "loop"
             /\ cache' = cache]_vars
    /\ []((Responded /\ response.status = 200) =>
             /\ Len(response.results) = Len(req.urls.list)
             /\ \A k \in 1..Len(response.results) :
                   \/ IsDegraded(response.results[k], req.urls.list[k])
                   \/ IsAnalyzed(response.results[k], req.urls.list[k]))

\* the first url failed, the second url was analyzed and got competitors
C18_FailureThenSuccess ==
    /\ Responded
    /\ response.status = 200
    /\ calls.primaryFailed = 1
    /\ Len(response.results) = 2
    /\ IsDegraded(response.results[1], req.urls.list[1])
    /\ IsAnalyzed(response.results[2], req.urls.list[2])
    /\ Len(response.results[2].entities) > 0
    /\ "competitors" \in DOMAIN response.results[2]
    /\ Len(response.results[2].competitors) > 0

\* C19: when competitor discovery fails after a successful primary
\* analysis, the failure is swallowed: the result of the url is pushed with
\* the entities, searchPhrase and summary of the primary analysis, without
\* competitors, and not as a degraded result.
C19_DiscoveryFailureSwallowed ==
    [][calls'.searchFailed = calls.searchFailed + 1 =>
          LET url == req.urls.list[idx]
              primary == cache[CacheKey(url)].data
              pushed == results'[Len(results')]
          IN  /\ Len(results') = Len(results) + 1
              /\ SubSeq(results', 1, Len(results)) = results
              /\ pushed.url = url
              /\ pushed.entities = primary.entities
              /\ pushed.searchPhrase = primary.searchPhrase
              /\ pushed.summary = primary.summary
              /\ "competitors" \notin DOMAIN pushed
              /\ ~IsDegraded(pushed, url)
              /\ idx' = idx + 1
              /\ pc' = "loop"]_vars

\* a response whose result has entities and no competitors after a failed search
C19_AnsweredAfterFailedSearch ==
    /\ Responded
    /\ response.status = 200
    /\ calls.searchFailed = 1
    /\ Len(response.results) = 1
    /\ Len(response.results[1].entities) > 0
    /\ "competitors" \notin DOMAIN response.results[1]

CachedFields == {"url", "entities", "searchPhrase", "summary", "originalContent"}

\* C20: no cache entry contains competitor data: attaching competitors to
\* the result of a url never modifies the cached record of that url, which
\* always holds only url, entities, searchPhrase, summary and
\* originalContent.
C20_CacheWithoutCompetitors ==
    /\ [](\A key \in DOMAIN cache : DOMAIN cache[key].data = CachedFields)
    /\ [][("competitors" \in DOMAIN result' /\ result' # result)
             => cache' = cache]_vars

\* competitors were attached to the result of a url whose record is cached
C20_AttachedAndCached ==
    /\ Responded
    /\ response.status = 200
    /\ \E k \in 1..Len(response.results) :
          /\ "competitors" \in DOMAIN response.results[k]
          /\ Len(response.results[k].competitors) > 0
          /\ CacheKey(response.results[k].url) \in DOMAIN cache
          /\ "competitors" \notin DOMAIN cache[CacheKey(response.results[k].url)].data

\* the handler is inside the loop over the urls
InLoop == pc \in {"loop", "fetch", "llm", "discover", "batch", "pause"}

\* C21: within one request the urls are processed strictly one after
\* another: the whole pipeline of url i (cache lookup, fetch, extraction,
\* discovery and all its competitor batches) is complete before any step of
\* url i+1 begins.
C21_UrlsSequential ==
    /\ [](InLoop => Len(results) = idx - 1)
    /\ []((pc \in {"loop", "fetch", "llm", "discover"}) => InFlight = 0)
    /\ [][(InLoop /\ idx' # idx) =>
             /\ idx' = idx + 1
             /\ pc' = "loop"
             /\ Len(results') = idx
             /\ SubSeq(results', 1, Len(results)) = results
             /\ results'[idx].url = req.urls.list[idx]
             /\ InFlight' = 0]_vars

\* the second url is being fetched after the two batches of the first url
C21_SecondAfterBatches ==
    /\ pc = "fetch"
    /\ idx = 2
    /\ Len(results) = 1
    /\ "competitors" \in DOMAIN results[1]
    /\ Len(results[1].competitors) = 4
    /\ batches = <<3, 1>>
    /\ pauses = 1

AllDone == \A p \in DOMAIN handlers : handlers[p].pc = "done"

\* C22: two requests that run concurrently for the same uncached url may
\* both run the fetcher and the extractor; after both have finished the
\* entry of the url holds exactly the record and the timestamp written by
\* the set that executed last, and an entry is never a mixture of two
\* writes.
C22_LastWriterWins ==
    /\ [](\A key \in DOMAIN cache :
             \E p \in DOMAIN handlers :
                /\ CacheKey(handlers[p].url) = key
                /\ handlers[p].wrote = <<cache[key]>>)
    /\ [](AllDone => \A key \in DOMAIN cache : cache[key] = stored[key])
    /\ [][\A p \in DOMAIN handlers :
             (handlers[p].wrote = <<>> /\ handlers'[p].wrote # <<>>) =>
                /\ cache'[CacheKey(handlers[p].url)] = handlers'[p].wrote[1]
                /\ handlers'[p].wrote[1].timestamp = now
                /\ \A key \in DOMAIN cache \ {CacheKey(handlers[p].url)} :
                      key \in DOMAIN cache' /\ cache'[key] = cache[key]]_vars

\* both requests fetched and extracted the same url; the first request set
\* last and its record, written later, is the entry
C22_BothRanFirstSetLast ==
    /\ AllDone
    /\ handlers[1].url = handlers[2].url
    /\ handlers[1].fetched /\ handlers[1].extracted
    /\ handlers[2].fetched /\ handlers[2].extracted
    /\ handlers[1].wrote # <<>>
    /\ handlers[2].wrote # <<>>
    /\ handlers[1].wrote[1].data # handlers[2].wrote[1].data
    /\ handlers[1].wrote[1].timestamp > handlers[2].wrote[1].timestamp
    /\ cache[CacheKey(handlers[1].url)] = handlers[1].wrote[1]

\* C23: a cache entry is removed only by a get on its own key at or after
\* its expiry; no set and no get on another key removes or alters it; a set
\* on an existing key replaces the value and resets the timestamp to the
\* current time.
C23_EntryFrame ==
    [][/\ \A key \in DOMAIN cache :
             /\ key \notin DOMAIN cache' =>
                   /\ got'.flip # got.flip
                   /\ got'.key = key
                   /\ now - cache[key].timestamp >= CACHE_TTL
                   /\ stored' = stored
             /\ (key \in DOMAIN cache' /\ cache'[key] # cache[key]) =>
                   /\ stored' # stored
                   /\ got' = got
                   /\ cache'[key] = stored'[key]
                   /\ cache'[key].timestamp = now
       /\ stored' # stored =>
             \E key \in DOMAIN stored' :
                /\ stored'[key] \in [data : CacheValues, timestamp : {now}]
                /\ cache' = MapSet(cache, key, stored'[key])
                /\ \A other \in DOMAIN stored \ {key} :
                      stored'[other] = stored[other]]_vars

\* the entry of u1, set at 0, was removed by a get at its expiry; the entry
\* of u2, set again at 1, is still there
C23_OtherKeyKept ==
    /\ now = CACHE_TTL
    /\ got.key = CacheKey("u1")
    /\ got.at = now
    /\ got.data = <<>>
    /\ CacheKey("u1") \in DOMAIN stored
    /\ stored[CacheKey("u1")].timestamp = 0
    /\ DOMAIN cache = {CacheKey("u2")}
    /\ cache[CacheKey("u2")].timestamp = 1

\* C24: every fetcher call eventually completes, returning text or
\* failing, no later than the firing of its 10-second timeout, for every
\* behaviour of the upstream server: no response at all, headers followed
\* by a body that never finishes, or a slow body.
C24_CompletesByTimeout == <>(pc = "returned" /\ now <= FetchTimeout)

FrequencyIn(rs, name) == RoundPercent(Cardinality(SitesWith(rs, name)), Len(rs))

\* the names that qualify for commonEntities, and for competitiveGaps
QualifyCommon(rs) == {name \in RankNames : FrequencyIn(rs, name) >= 40}

QualifyGap(rs) ==
    {name \in RankNames :
        /\ SitesWith(rs, name) # {}
        /\ FrequencyIn(rs, name) >= 20
        /\ FrequencyIn(rs, name) <= 30}

\* C26: commonEntities is sorted by non-increasing frequency and has at most
\* 10 entries, competitiveGaps is sorted by non-decreasing coverage and has
\* at most 10 entries; when more than 10 names qualify, the 10 kept are the
\* first 10 of that order.
C26_SortedTopTen ==
    marketIntelligence # <<>> =>
        LET common == marketIntelligence[1].commonEntities
            gaps == marketIntelligence[1].competitiveGaps
            keptCommon == {common[k].name : k \in 1..Len(common)}
            keptGaps == {gaps[k].entity : k \in 1..Len(gaps)}
        IN  /\ Len(common) = Min(10, Cardinality(QualifyCommon(results)))
            /\ Cardinality(keptCommon) = Len(common)
            /\ keptCommon \subseteq QualifyCommon(results)
            /\ \A i, j \in 1..Len(common) :
                  i < j => common[i].frequency >= common[j].frequency
            /\ \A k \in 1..Len(common), out \in QualifyCommon(results) \ keptCommon :
                  common[k].frequency >= FrequencyIn(results, out)
            /\ Len(gaps) = Min(10, Cardinality(QualifyGap(results)))
            /\ Cardinality(keptGaps) = Len(gaps)
            /\ keptGaps \subseteq QualifyGap(results)
            /\ \A i, j \in 1..Len(gaps) :
                  i < j => gaps[i].coverage <= gaps[j].coverage
            /\ \A k \in 1..Len(gaps), out \in QualifyGap(results) \ keptGaps :
                  gaps[k].coverage <= FrequencyIn(results, out)

\* twelve names qualify for commonEntities with two frequencies: ten are kept
C26_TwelveQualify ==
    /\ marketIntelligence # <<>>
    /\ Cardinality(QualifyCommon(results)) = 12
    /\ Len(marketIntelligence[1].commonEntities) = 10
    /\ marketIntelligence[1].commonEntities[1].frequency
          > marketIntelligence[1].commonEntities[10].frequency
    /\ \E name \in QualifyCommon(results) :
          /\ \A e \in Range(marketIntelligence[1].commonEntities) : e.name # name
          /\ FrequencyIn(results, name)
                = marketIntelligence[1].commonEntities[10].frequency

\* the names of the k-th result that occur on at most 2 sites, in its order
QualifyUnique(rs, k) ==
    LET names == [i \in 1..Len(rs[k].entities) |-> rs[k].entities[i].name]
    IN  SelectSeq(names,
                  LAMBDA name :
                      Cardinality(SitesWith(rs, toLowerCase(name))) <= 2)

\* C27: uniquePositioning has one entry per primary result that has at
\* least one qualifying entity and none for the others; an entry lists only
\* entities of its result whose name occurs, case-insensitively, on at most
\* 2 distinct sites among the primary and the successfully analyzed
\* competitor sites, in the result's entity order, at most 5 per result.
C27_UniquePositioning ==
    marketIntelligence # <<>> =>
        LET up == marketIntelligence[1].uniquePositioning
            with == SelectSeq([k \in 1..Len(results) |-> k],
                              LAMBDA k : QualifyUnique(results, k) # <<>>)
        IN  /\ Len(up) = Len(with)
            /\ \A i \in 1..Len(up) :
                  /\ up[i].url = results[with[i]].url
                  /\ Len(up[i].uniqueEntities) <= 5
                  /\ up[i].uniqueEntities
                        = SubSeq(QualifyUnique(results, with[i]), 1,
                                 Min(5, Len(QualifyUnique(results, with[i]))))

\* twelve names on the first two primary results, three of them also on the
\* competitor: each of the two results is listed with e4 .. e8
C27_FiveOfNine ==
    /\ marketIntelligence # <<>>
    /\ Len(results) = 10
    /\ "competitors" \in DOMAIN results[1]
    /\ Len(results[1].entities) = 12
    /\ Len(marketIntelligence[1].uniquePositioning) = 2
    /\ marketIntelligence[1].uniquePositioning[2]
          = [url |-> "u2", uniqueEntities |-> <<"e4", "e5", "e6", "e7", "e8">>]

\* the handler is at the top of an iteration for a url that is left
AtLookup == pc = "loop" /\ idx <= Len(req.urls.list)

\* the cache holds an entry for the url of the iteration, younger than the TTL
Hit ==
    /\ AtLookup
    /\ CacheKey(req.urls.list[idx]) \in DOMAIN cache
    /\ now - cache[CacheKey(req.urls.list[idx])].timestamp < CACHE_TTL

\* C28: after any sequence of requests every cache entry holds the record of
\* a primary analysis whose fetcher and extractor both succeeded; a failing
\* primary step stores nothing and leaves the url without an entry, and a url
\* without an entry is fetched (and then extracted) again when it comes up.
C28_OnlyAnalysesCached ==
    /\ [](\A key \in DOMAIN cache :
             \E url \in Urls :
                 /\ key = CacheKey(url)
                 /\ IsAnalyzed(cache[key].data, url)
                 /\ ~IsDegraded(cache[key].data, url))
    /\ [][calls'.primaryFailed = calls.primaryFailed + 1
             => /\ cache' = cache
                /\ CacheKey(req.urls.list[idx]) \notin DOMAIN cache']_vars
    /\ [][(AtLookup /\ CacheKey(req.urls.list[idx]) \notin DOMAIN cache)
             => /\ pc' = "fetch"
                /\ calls'.fetch = calls.fetch + 1]_vars

\* the url failed at its first occurrence, and its second occurrence has been
\* fetched again and is being extracted
C28_FetchedAgain ==
    /\ pc = "llm"
    /\ idx = 2
    /\ req.urls.list = <<"u1", "u1">>
    /\ Len(results) = 1
    /\ IsDegraded(results[1], "u1")
    /\ CacheKey("u1") \notin DOMAIN cache
    /\ calls.fetch = 2

\* C29: on a cache hit the handler calls neither the fetcher nor the
\* extractor for that url and leaves the entry and its timestamp unchanged;
\* a timestamp changes only when an extraction is stored, and an entry that
\* has reached the TTL is dropped and its url fetched, however often it was
\* read before.  This covers a url listed twice in one request.
C29_HitLeavesEntry ==
    /\ [][Hit => /\ cache' = cache
                 /\ calls'.fetch = calls.fetch
                 /\ calls'.llm = calls.llm
                 /\ pc' \notin {"fetch", "llm"}
                 /\ IsAnalyzed(result', req.urls.list[idx])]_vars
    /\ [][\A key \in DOMAIN cache \cap DOMAIN cache' :
             cache'[key].timestamp # cache[key].timestamp => pc = "llm"]_vars
    /\ [][(AtLookup /\ ~Hit)
             => /\ pc' = "fetch"
                /\ CacheKey(req.urls.list[idx]) \notin DOMAIN cache']_vars

\* a second request reads the entry of the first one twice, one millisecond
\* before it expires: nothing is fetched and the timestamp is still 0
C29_ReadTwiceBeforeExpiry ==
    /\ Responded
    /\ served = 2
    /\ now = CACHE_TTL - 1
    /\ response.status = 200
    /\ req.urls.list = <<"u1", "u1">>
    /\ Len(response.results) = 2
    /\ calls.fetch = 0
    /\ calls.llm = 0
    /\ CacheKey("u1") \in DOMAIN cache
    /\ cache[CacheKey("u1")].timestamp = 0

\* C30: in every 200 response results has exactly one entry per requested
\* url in request order, whether the url was served from the cache, analyzed
\* or failed; metadata.totalUrls is the number of requested urls and
\* metadata.successfulAnalyses is the number of results with at least one
\* entity, hence at most totalUrls.
C30_OneResultPerUrl ==
    response.status = 200 =>
        /\ Len(response.results) = Len(req.urls.list)
        /\ \A i \in 1..Len(req.urls.list) :
              response.results[i].url = req.urls.list[i]
        /\ response.metadata.totalUrls = Len(req.urls.list)
        /\ response.metadata.successfulAnalyses
              = Cardinality({i \in 1..Len(response.results) :
                                response.results[i].entities # <<>>})
        /\ response.metadata.successfulAnalyses <= response.metadata.totalUrls

\* a second request answered with a result from the cache and a failed one
C30_CachedAndFailed ==
    /\ Responded
    /\ served = 2
    /\ response.status = 200
    /\ req.urls.list = <<"u1", "u2">>
    /\ calls.fetch = 1
    /\ response.results[1].entities # <<>>
    /\ IsDegraded(response.results[2], "u2")
    /\ response.metadata.totalUrls = 2
    /\ response.metadata.successfulAnalyses = 1

====
